---- MODULE Spec2Model ----
(***************************************************************************)
(* Model of the ICMP transaction correlator of packetbeat                  *)
(* (protos/icmp/icmp.go): the matcher (processRequest, processResponse,    *)
(* expireTransaction), the event assembly (publishTransaction, direction)  *)
(* and the TTL cache it drives (Put, Delete, janitor sweep).               *)
(*                                                                         *)
(* Time.  The cache clock is kept relative: every entry carries its age    *)
(* (seconds since Put), and `phase` is the number of seconds since the     *)
(* janitor's ticker last fired.  An entry is expired when its age has      *)
(* reached the transaction timeout; the janitor is due when phase has      *)
(* reached its interval.  Message timestamps (pkt.Ts) are inputs of their  *)
(* own, counted in fractions of a millisecond.                             *)
(***************************************************************************)
EXTENDS Integers, Sequences, FiniteSets, TLC

\* ------------------------------------------------------------- bounds
\* Number of messages the ingestion path processes in one run.
MaxMsgs == 3
\* Timestamp units per millisecond.
TsPerMilli == 2
\* icmp.transactionTimeout and the janitor interval, in seconds (ticks of the
\* cache clock).
TransactionTimeout == 2

\* ------------------------------------------------------------- constants of the program
duplicateRequestMsg == "Another request with the same Id and Seq was received so this request was closed without receiving a response."
orphanedRequestMsg == "Request was received without an associated response."
orphanedResponseMsg == "Response was received without an associated request."

directionLocalOnly == 0
directionFromInside == 1
directionFromOutside == 2

OK_STATUS == "OK"
ERROR_STATUS == "Error"

\* ------------------------------------------------------------- inputs
Loopback == "127.0.0.1"
LocalAddr == "10.0.0.5"
RemoteAddr == "8.8.8.8"

\* nil: a nil *icmpMessage or *icmpTransaction, a cache miss
Nil == [nil |-> TRUE]

\* ICMPv4 types the inputs use: echo reply, destination unreachable, echo request.
TypeEchoReply == 0
TypeDestUnreachable == 3
TypeEchoRequest == 8
Types == {TypeEchoReply, TypeDestUnreachable, TypeEchoRequest}

\* Payload length of a message of each type.
LengthOf(typ) == IF typ = TypeEchoRequest THEN 64 ELSE IF typ = TypeEchoReply THEN 56 ELSE 36

\* Packet timestamps of a message of each type, in units of 1/TsPerMilli ms: a
\* reply is stamped before its request, or a millisecond and a half after it.
Timestamps(typ) == IF typ = TypeEchoReply THEN {0, 4} ELSE {1}

\* icmpTuple values built by ProcessICMPv4 from the packet.
icmpTuple(ver, src, dst, id, seq) ==
    [IcmpVersion |-> ver, SrcIp |-> src, DstIp |-> dst, Id |-> id, Seq |-> seq]

Tuples ==
    { icmpTuple(4, LocalAddr, RemoteAddr, 1, 1),
      icmpTuple(4, RemoteAddr, LocalAddr, 1, 1),
      icmpTuple(4, Loopback, LocalAddr, 1, 2) }

\* icmpMessage values built by ProcessICMPv4 from the packet.
icmpMessage(ts, typ, code, len) ==
    [Ts |-> ts, Type |-> typ, Code |-> code, Length |-> len]

Messages ==
    UNION { { icmpMessage(ts, typ, 0, LengthOf(typ)) : ts \in Timestamps(typ) } : typ \in Types }

\* ------------------------------------------------------------- tuple
\* Tuple.Reverse: addresses swapped, correlation fields kept.
Reverse(t) ==
    [IcmpVersion |-> t.IcmpVersion, SrcIp |-> t.DstIp, DstIp |-> t.SrcIp,
     Id |-> t.Id, Seq |-> t.Seq]

\* Tuple.Hashable: the comparable map key derived from the tuple.
Hashable(t) == <<t.IcmpVersion, t.SrcIp, t.DstIp, t.Id, t.Seq>>

Keys == { Hashable(t) : t \in Tuples } \cup { Hashable(Reverse(t)) : t \in Tuples }

\* ------------------------------------------------------------- protocol predicates
isRequest(tuple, msg) == msg.Type # TypeEchoReply

requiresCounterpart(tuple, msg) == msg.Type = TypeEchoRequest

\* ------------------------------------------------------------- transaction
\* &icmpTransaction{Ts: ts, Tuple: tuple}; id stands for the pointer.
NewTransaction(id, ts, tuple) ==
    [id |-> id, Ts |-> ts, Tuple |-> tuple, Notes |-> <<>>,
     Request |-> Nil, Response |-> Nil]

HasError(trans) == Len(trans.Notes) > 0

\* Go integer division: the quotient is truncated toward zero.
GoDiv(a, b) == IF a >= 0 THEN a \div b ELSE -((-a) \div b)

ResponseTimeMillis(trans) ==
    IF trans.Request # Nil /\ trans.Response # Nil
    THEN <<GoDiv(trans.Response.Ts - trans.Request.Ts, TsPerMilli), TRUE>>
    ELSE <<0, FALSE>>

\* ------------------------------------------------------------- state
VARIABLES
    localIps,    \* icmp.localIps: the addresses LocalIpAddrs() returned
    store,       \* icmp.transactions: key -> Nil or [value, age]
    phase,       \* seconds since the janitor's ticker last fired
    pc,          \* position of the ingestion goroutine: "idle" or "put"
    cur,         \* the (tuple, msg) processRequest is working on, or Nil
    nextId,      \* number of icmpTransaction objects allocated so far, plus one
    nmsgs,       \* messages handed to processMessage so far
    published    \* calls of publishTransaction so far, in order: [trans, event, by]

vars == <<localIps, store, phase, pc, cur, nextId, nmsgs, published>>

\* ------------------------------------------------------------- direction
isLocalIp(ip) == ip = Loopback \/ ip \in localIps

direction(t) ==
    IF ~isLocalIp(t.Tuple.SrcIp) THEN directionFromOutside
    ELSE IF ~isLocalIp(t.Tuple.DstIp) THEN directionFromInside
    ELSE directionLocalOnly

\* ------------------------------------------------------------- event assembly
humanReadable(tuple, msg) == <<"icmp", tuple.IcmpVersion, msg.Type, msg.Code>>

\* A MapStr holding key k when present holds.
Field(present, k, v) == IF present THEN k :> v ELSE <<>>

MessageFields(tuple, msg) ==
    [message |-> humanReadable(tuple, msg), type |-> msg.Type, code |-> msg.Code]

icmpEvent(trans) ==
    ("version" :> trans.Tuple.IcmpVersion)
    @@ Field(trans.Request # Nil, "request", MessageFields(trans.Tuple, trans.Request))
    @@ Field(trans.Response # Nil, "response", MessageFields(trans.Tuple, trans.Response))

\* The bytes fields with bytes_in and bytes_out exchanged.
BytesFields_Swapped(trans) ==
    LET d == direction(trans) IN
    IF d = directionFromInside
    THEN Field(trans.Request # Nil, "bytes_in", trans.Request.Length)
         @@ Field(trans.Response # Nil, "bytes_out", trans.Response.Length)
    ELSE IF d = directionFromOutside
    THEN Field(trans.Request # Nil, "bytes_out", trans.Request.Length)
         @@ Field(trans.Response # Nil, "bytes_in", trans.Response.Length)
    ELSE <<>>

BytesFields(trans) ==
    LET d == direction(trans) IN
    IF d = directionFromInside
    THEN Field(trans.Request # Nil, "bytes_out", trans.Request.Length)
         @@ Field(trans.Response # Nil, "bytes_in", trans.Response.Length)
    ELSE IF d = directionFromOutside
    THEN Field(trans.Request # Nil, "bytes_in", trans.Request.Length)
         @@ Field(trans.Response # Nil, "bytes_out", trans.Response.Length)
    ELSE <<>>

StatusField(trans) == IF HasError(trans) THEN ERROR_STATUS ELSE OK_STATUS

\* event["notes"] set whether or not there are notes.
NotesField_Always(trans) == "notes" :> trans.Notes

NotesField(trans) == Field(Len(trans.Notes) > 0, "notes", trans.Notes)

ResponseTimeField(trans) ==
    LET rt == ResponseTimeMillis(trans) IN Field(rt[2], "responsetime", rt[1])

\* The event publishTransaction hands to results.PublishEvent.
Event(trans) ==
    ("client_ip" :> trans.Tuple.SrcIp)
    @@ ("ip" :> trans.Tuple.DstIp)
    @@ ("@timestamp" :> trans.Ts)
    @@ ("type" :> "icmp")
    @@ ("count" :> 1)
    @@ ("path" :> trans.Tuple.DstIp)
    @@ ("status" :> StatusField(trans))
    @@ NotesField(trans)
    @@ ResponseTimeField(trans)
    @@ BytesFields(trans)
    @@ ("icmp" :> icmpEvent(trans))

\* publishTransaction(trans), called from `by`; icmp.results is not nil.
publishTransaction(pub, trans, by) ==
    Append(pub, [trans |-> trans, event |-> Event(trans), by |-> by])

\* ------------------------------------------------------------- cache
\* What Delete(k) returns: the value, or Nil.
CacheValue(s, k) == IF s[k] = Nil THEN Nil ELSE s[k].value

\* The map after Delete(k).
CacheDelete(s, k) == [s EXCEPT ![k] = Nil]

\* The map after Put(k, v): the expiration restarts.
CachePut(s, k, v) == [s EXCEPT ![k] = [value |-> v, age |-> 0]]

IsExpired(e) == e.age >= TransactionTimeout

ExpiredKeys(s) == { k \in DOMAIN s : s[k] # Nil /\ IsExpired(s[k]) }

\* ------------------------------------------------------------- matcher
\* trans.Notes = append(trans.Notes, note)
AddNote(trans, note) == [trans EXCEPT !.Notes = Append(@, note)]

Init ==
    /\ localIps = {LocalAddr}
    /\ store = [k \in Keys |-> Nil]
    /\ phase = 0
    /\ pc = "idle"
    /\ cur = Nil
    /\ nextId = 1
    /\ nmsgs = 0
    /\ published = <<>>

\* processRequest publishing the superseded transaction without the note.
ProcessRequestDelete_NoNote(tuple, msg) ==
    /\ pc = "idle"
    /\ nmsgs < MaxMsgs
    /\ isRequest(tuple, msg)
    /\ LET trans == CacheValue(store, Hashable(tuple)) IN
       /\ store' = CacheDelete(store, Hashable(tuple))
       /\ published' = IF trans # Nil
                       THEN publishTransaction(published, trans, "processRequest")
                       ELSE published
    /\ pc' = "put"
    /\ cur' = [tuple |-> tuple, msg |-> msg]
    /\ nmsgs' = nmsgs + 1
    /\ UNCHANGED <<localIps, phase, nextId>>

\* processRequest without lines 158-163: a pending entry is left for Put to
\* overwrite.
ProcessRequestDelete_NoDelete(tuple, msg) ==
    /\ pc = "idle"
    /\ nmsgs < MaxMsgs
    /\ isRequest(tuple, msg)
    /\ pc' = "put"
    /\ cur' = [tuple |-> tuple, msg |-> msg]
    /\ nmsgs' = nmsgs + 1
    /\ UNCHANGED <<localIps, phase, nextId, store, published>>

\* processRequest looking the pending transaction up with getTransaction
\* instead of deleteTransaction: the transaction gets the note and is published
\* while it stays in the store.
ProcessRequestDelete_GetThenNote(tuple, msg) ==
    /\ pc = "idle"
    /\ nmsgs < MaxMsgs
    /\ isRequest(tuple, msg)
    /\ LET trans == CacheValue(store, Hashable(tuple)) IN
       /\ store' = IF trans # Nil
                   THEN [store EXCEPT ![Hashable(tuple)].value = AddNote(trans, duplicateRequestMsg)]
                   ELSE store
       /\ published' = IF trans # Nil
                       THEN publishTransaction(published, AddNote(trans, duplicateRequestMsg), "processRequest")
                       ELSE published
    /\ pc' = "put"
    /\ cur' = [tuple |-> tuple, msg |-> msg]
    /\ nmsgs' = nmsgs + 1
    /\ UNCHANGED <<localIps, phase, nextId>>

\* processRequest, up to and including the publication of a superseded
\* transaction (lines 158-163).
ProcessRequestDelete(tuple, msg) ==
    /\ pc = "idle"
    /\ nmsgs < MaxMsgs
    /\ isRequest(tuple, msg)
    /\ LET trans == CacheValue(store, Hashable(tuple)) IN
       /\ store' = CacheDelete(store, Hashable(tuple))
       /\ published' = IF trans # Nil
                       THEN publishTransaction(published, AddNote(trans, duplicateRequestMsg), "processRequest")
                       ELSE published
    /\ pc' = "put"
    /\ cur' = [tuple |-> tuple, msg |-> msg]
    /\ nmsgs' = nmsgs + 1
    /\ UNCHANGED <<localIps, phase, nextId>>

\* processRequest storing every request, whether or not it needs a counterpart.
ProcessRequestStore_AlwaysPut ==
    /\ pc = "put"
    /\ LET trans == [NewTransaction(nextId, cur.msg.Ts, cur.tuple) EXCEPT !.Request = cur.msg] IN
       /\ store' = CachePut(store, Hashable(cur.tuple), trans)
       /\ UNCHANGED published
    /\ nextId' = nextId + 1
    /\ pc' = "idle"
    /\ cur' = Nil
    /\ UNCHANGED <<localIps, phase, nmsgs>>

\* processRequest with the else of line 170 missing: a stored transaction is
\* published at once as well.
ProcessRequestStore_PutAndPublish ==
    /\ pc = "put"
    /\ LET trans == [NewTransaction(nextId, cur.msg.Ts, cur.tuple) EXCEPT !.Request = cur.msg] IN
       /\ store' = IF requiresCounterpart(cur.tuple, cur.msg)
                   THEN CachePut(store, Hashable(cur.tuple), trans)
                   ELSE store
       /\ published' = publishTransaction(published, trans, "processRequest")
    /\ nextId' = nextId + 1
    /\ pc' = "idle"
    /\ cur' = Nil
    /\ UNCHANGED <<localIps, phase, nmsgs>>

\* processRequest making the new transaction with the notes of the transaction
\* last published for its tuple.
ProcessRequestStore_KeepNotes ==
    /\ pc = "put"
    /\ LET prior == { i \in 1..Len(published) : published[i].trans.Tuple = cur.tuple }
           notes == IF prior = {} THEN <<>>
                    ELSE published[CHOOSE i \in prior : \A j \in prior : j <= i].trans.Notes
           trans == [NewTransaction(nextId, cur.msg.Ts, cur.tuple) EXCEPT !.Request = cur.msg, !.Notes = notes]
       IN
       IF requiresCounterpart(cur.tuple, cur.msg)
       THEN /\ store' = CachePut(store, Hashable(cur.tuple), trans)
            /\ UNCHANGED published
       ELSE /\ published' = publishTransaction(published, trans, "processRequest")
            /\ UNCHANGED store
    /\ nextId' = nextId + 1
    /\ pc' = "idle"
    /\ cur' = Nil
    /\ UNCHANGED <<localIps, phase, nmsgs>>

\* processRequest, the rest (lines 165-172): the new transaction is stored or
\* published.
ProcessRequestStore ==
    /\ pc = "put"
    /\ LET trans == [NewTransaction(nextId, cur.msg.Ts, cur.tuple) EXCEPT !.Request = cur.msg] IN
       IF requiresCounterpart(cur.tuple, cur.msg)
       THEN /\ store' = CachePut(store, Hashable(cur.tuple), trans)
            /\ UNCHANGED published
       ELSE /\ published' = publishTransaction(published, trans, "processRequest")
            /\ UNCHANGED store
    /\ nextId' = nextId + 1
    /\ pc' = "idle"
    /\ cur' = Nil
    /\ UNCHANGED <<localIps, phase, nmsgs>>

\* processResponse looking the transaction up with getTransaction instead of
\* deleteTransaction.
ProcessResponse_Get(tuple, msg) ==
    /\ pc = "idle"
    /\ nmsgs < MaxMsgs
    /\ ~isRequest(tuple, msg)
    /\ LET revTuple == Reverse(tuple)
           found == CacheValue(store, Hashable(revTuple))
           trans == IF found = Nil
                    THEN AddNote(NewTransaction(nextId, msg.Ts, revTuple), orphanedResponseMsg)
                    ELSE found
       IN
       /\ store' = IF found = Nil THEN store
                   ELSE [store EXCEPT ![Hashable(revTuple)].value = [trans EXCEPT !.Response = msg]]
       /\ nextId' = IF found = Nil THEN nextId + 1 ELSE nextId
       /\ published' = publishTransaction(published, [trans EXCEPT !.Response = msg], "processResponse")
    /\ nmsgs' = nmsgs + 1
    /\ UNCHANGED <<localIps, phase, pc, cur>>

\* processResponse without line 182: the orphaned response carries no note.
ProcessResponse_NoNote(tuple, msg) ==
    /\ pc = "idle"
    /\ nmsgs < MaxMsgs
    /\ ~isRequest(tuple, msg)
    /\ LET revTuple == Reverse(tuple)
           found == CacheValue(store, Hashable(revTuple))
           trans == IF found = Nil THEN NewTransaction(nextId, msg.Ts, revTuple) ELSE found
       IN
       /\ store' = CacheDelete(store, Hashable(revTuple))
       /\ nextId' = IF found = Nil THEN nextId + 1 ELSE nextId
       /\ published' = publishTransaction(published, [trans EXCEPT !.Response = msg], "processResponse")
    /\ nmsgs' = nmsgs + 1
    /\ UNCHANGED <<localIps, phase, pc, cur>>

\* processResponse building the orphan with the response's own tuple instead of
\* revTuple.
ProcessResponse_OwnTuple(tuple, msg) ==
    /\ pc = "idle"
    /\ nmsgs < MaxMsgs
    /\ ~isRequest(tuple, msg)
    /\ LET revTuple == Reverse(tuple)
           found == CacheValue(store, Hashable(revTuple))
           trans == IF found = Nil
                    THEN AddNote(NewTransaction(nextId, msg.Ts, tuple), orphanedResponseMsg)
                    ELSE found
       IN
       /\ store' = CacheDelete(store, Hashable(revTuple))
       /\ nextId' = IF found = Nil THEN nextId + 1 ELSE nextId
       /\ published' = publishTransaction(published, [trans EXCEPT !.Response = msg], "processResponse")
    /\ nmsgs' = nmsgs + 1
    /\ UNCHANGED <<localIps, phase, pc, cur>>

\* processResponse restamping the matched transaction with the response's
\* timestamp.
ProcessResponse_Restamp(tuple, msg) ==
    /\ pc = "idle"
    /\ nmsgs < MaxMsgs
    /\ ~isRequest(tuple, msg)
    /\ LET revTuple == Reverse(tuple)
           found == CacheValue(store, Hashable(revTuple))
           trans == IF found = Nil
                    THEN AddNote(NewTransaction(nextId, msg.Ts, revTuple), orphanedResponseMsg)
                    ELSE [found EXCEPT !.Ts = msg.Ts]
       IN
       /\ store' = CacheDelete(store, Hashable(revTuple))
       /\ nextId' = IF found = Nil THEN nextId + 1 ELSE nextId
       /\ published' = publishTransaction(published, [trans EXCEPT !.Response = msg], "processResponse")
    /\ nmsgs' = nmsgs + 1
    /\ UNCHANGED <<localIps, phase, pc, cur>>

\* processResponse looking the transaction up under the response's own tuple
\* instead of revTuple.
ProcessResponse_SameDirection(tuple, msg) ==
    /\ pc = "idle"
    /\ nmsgs < MaxMsgs
    /\ ~isRequest(tuple, msg)
    /\ LET revTuple == Reverse(tuple)
           found == CacheValue(store, Hashable(tuple))
           trans == IF found = Nil
                    THEN AddNote(NewTransaction(nextId, msg.Ts, revTuple), orphanedResponseMsg)
                    ELSE found
       IN
       /\ store' = CacheDelete(store, Hashable(tuple))
       /\ nextId' = IF found = Nil THEN nextId + 1 ELSE nextId
       /\ published' = publishTransaction(published, [trans EXCEPT !.Response = msg], "processResponse")
    /\ nmsgs' = nmsgs + 1
    /\ UNCHANGED <<localIps, phase, pc, cur>>

\* processResponse keeping the orphaned response in the store, to wait for its
\* request, instead of publishing it.
ProcessResponse_StoreOrphan(tuple, msg) ==
    /\ pc = "idle"
    /\ nmsgs < MaxMsgs
    /\ ~isRequest(tuple, msg)
    /\ LET revTuple == Reverse(tuple)
           found == CacheValue(store, Hashable(revTuple))
           trans == IF found = Nil
                    THEN AddNote(NewTransaction(nextId, msg.Ts, revTuple), orphanedResponseMsg)
                    ELSE found
       IN
       /\ store' = IF found = Nil
                   THEN CachePut(store, Hashable(revTuple), [trans EXCEPT !.Response = msg])
                   ELSE CacheDelete(store, Hashable(revTuple))
       /\ nextId' = IF found = Nil THEN nextId + 1 ELSE nextId
       /\ published' = IF found = Nil THEN published
                       ELSE publishTransaction(published, [trans EXCEPT !.Response = msg], "processResponse")
    /\ nmsgs' = nmsgs + 1
    /\ UNCHANGED <<localIps, phase, pc, cur>>

\* processResponse (lines 175-188).
ProcessResponse(tuple, msg) ==
    /\ pc = "idle"
    /\ nmsgs < MaxMsgs
    /\ ~isRequest(tuple, msg)
    /\ LET revTuple == Reverse(tuple)
           found == CacheValue(store, Hashable(revTuple))
           trans == IF found = Nil
                    THEN AddNote(NewTransaction(nextId, msg.Ts, revTuple), orphanedResponseMsg)
                    ELSE found
       IN
       /\ store' = CacheDelete(store, Hashable(revTuple))
       /\ nextId' = IF found = Nil THEN nextId + 1 ELSE nextId
       /\ published' = publishTransaction(published, [trans EXCEPT !.Response = msg], "processResponse")
    /\ nmsgs' = nmsgs + 1
    /\ UNCHANGED <<localIps, phase, pc, cur>>

\* A removal listener that drops the evicted transaction.
expireTransaction_NoPublish(pub, trans) == pub

\* expireTransaction (lines 230-234), the cache's removal listener.
expireTransaction(pub, trans) ==
    publishTransaction(pub, AddNote(trans, orphanedRequestMsg), "expireTransaction")

\* The listener applied to the evicted entries in the order ks.
RECURSIVE ExpireAll(_, _, _)
ExpireAll(pub, s, ks) ==
    IF ks = <<>> THEN pub
    ELSE ExpireAll(expireTransaction(pub, s[Head(ks)].value), s, Tail(ks))

\* The orders in which a sweep may visit the keys of S (Go map iteration).
Orders(S) ==
    { f \in [1..Cardinality(S) -> S] : \A i, j \in 1..Cardinality(S) : i # j => f[i] # f[j] }

\* A janitor whose interval is twice the transaction timeout.
JanitorInterval_Double == 2 * TransactionTimeout

\* The interval of the janitor's ticker: StartJanitor(icmp.transactionTimeout).
JanitorInterval == TransactionTimeout

\* A removal listener that calls back into the cache.
expireTransactionCalls_Delete(trans) == {"Delete"}

\* The cache methods expireTransaction calls on icmp.transactions: none.
expireTransactionCalls(trans) == {}

\* The entries of s one second older.
Aged(s) == [k \in DOMAIN s |-> IF s[k] = Nil THEN Nil ELSE [s[k] EXCEPT !.age = @ + 1]]

\* One second passes and the janitor's ticker does not fire.
Tick ==
    /\ phase + 1 < JanitorInterval
    /\ phase' = phase + 1
    /\ store' = Aged(store)
    /\ UNCHANGED <<localIps, pc, cur, nextId, nmsgs, published>>

\* One second passes and the janitor's ticker fires
\* (StartJanitor(transactionTimeout)): the sweep removes every expired entry
\* and hands it to the removal listener.  The sweep holds the cache's lock
\* while the listener runs: a listener that called a cache method would wait
\* for that lock for ever, and the sweep would not complete.
Janitor ==
    /\ phase + 1 = JanitorInterval
    /\ phase' = 0
    /\ LET s == Aged(store) IN
       \E ks \in Orders(ExpiredKeys(s)) :
          /\ \A k \in ExpiredKeys(s) : expireTransactionCalls(s[k].value) = {}
          /\ published' = ExpireAll(published, s, ks)
          /\ store' = [k \in DOMAIN s |-> IF k \in ExpiredKeys(s) THEN Nil ELSE s[k]]
    /\ UNCHANGED <<localIps, pc, cur, nextId, nmsgs>>

Next ==
    \/ \E t \in Tuples, m \in Messages : ProcessRequestDelete(t, m)
    \/ ProcessRequestStore
    \/ \E t \in Tuples, m \in Messages : ProcessResponse(t, m)
    \/ Tick
    \/ Janitor

Spec == Init /\ [][Next]_vars

\* The tuples of the conversation between LocalAddr and RemoteAddr, and the
\* earliest message of each type.
PairTuples == { t \in Tuples : Reverse(t) \in Tuples }
FirstMessages == { m \in Messages : \A ts \in Timestamps(m.Type) : m.Ts <= ts }

\* The same operations on the messages of one conversation.
PairNext ==
    \/ \E t \in PairTuples, m \in FirstMessages : ProcessRequestDelete(t, m)
    \/ ProcessRequestStore
    \/ \E t \in PairTuples, m \in FirstMessages : ProcessResponse(t, m)
    \/ Tick
    \/ Janitor

\* The janitor's ticker keeps firing (time passes and the sweep runs) and the
\* ingestion goroutine finishes the call it is in.
FairSpec ==
    Init /\ [][PairNext]_vars
    /\ WF_vars(Tick) /\ WF_vars(Janitor) /\ WF_vars(ProcessRequestStore)

\* ------------------------------------------------------------- vocabulary of the properties
Last(seq) == seq[Len(seq)]

StoredKeys == { k \in Keys : store[k] # Nil }

StoredIds == { store[k].value.id : k \in StoredKeys }

\* The places of pub where the transaction id was published.
PublishedIn(pub, id) == { i \in 1..Len(pub) : pub[i].trans.id = id }

PublishedAt(id) == PublishedIn(published, id)

IsPublished(id) == PublishedAt(id) # {}

Has(e, k) == k \in DOMAIN e

\* d fractions of a millisecond, in whole milliseconds, is rt.
WholeMillis(d, rt) ==
    IF d >= 0
    THEN rt >= 0 /\ rt * TsPerMilli <= d /\ d < (rt + 1) * TsPerMilli
    ELSE rt <= 0 /\ d <= rt * TsPerMilli /\ (rt - 1) * TsPerMilli < d

\* The step appended exactly one publication.
PublishedOne == Len(published') = Len(published) + 1 /\ SubSeq(published', 1, Len(published)) = published

\* ------------------------------------------------------------- C1
\* C1: a response on T.reverse() that finds the pending request on T publishes
\* exactly one transaction for the pair, the stored one: Request and Response
\* attached, no notes, status OK, responsetime the difference of the two
\* timestamps in whole milliseconds; the transaction was not published before
\* and its key is absent from the store afterwards.
C1_MatchedPair ==
    [][\A t \in Tuples, m \in Messages :
         LET k == Hashable(Reverse(t)) IN
         (ProcessResponse(t, m) /\ store[k] # Nil) =>
            LET old == store[k].value
                p == Last(published')
            IN /\ PublishedOne
               /\ ~IsPublished(old.id)
               /\ p.trans.id = old.id
               /\ p.trans.Request = old.Request /\ old.Request # Nil
               /\ p.trans.Response = m
               /\ p.trans.Notes = <<>>
               /\ ~Has(p.event, "notes")
               /\ p.event["status"] = OK_STATUS
               /\ Has(p.event, "responsetime")
               /\ WholeMillis(m.Ts - old.Request.Ts, p.event["responsetime"])
               /\ Has(p.event["icmp"], "request") /\ Has(p.event["icmp"], "response")
               /\ store'[k] = Nil
               /\ old.id \notin { store'[kk].value.id : kk \in { x \in Keys : store'[x] # Nil } }
    ]_vars

\* A pair was completed by a response stamped a millisecond and a half after
\* its request.
C1_Witness ==
    \E i \in 1..Len(published) :
       /\ published[i].by = "processResponse"
       /\ published[i].trans.Request # Nil
       /\ published[i].trans.Response.Ts - published[i].trans.Request.Ts > TsPerMilli
       /\ published[i].event["responsetime"] = 1

\* ------------------------------------------------------------- C2
\* The transaction the request step holds in `cur` once it is stored.
StoredValue(s, k) == s[k].value

\* The stored transaction id took the place of a superseded one: a transaction
\* with its tuple has been published with the duplicate-request note.
Supersedes(id) ==
    \E k \in StoredKeys :
       /\ store[k].value.id = id
       /\ \E i \in 1..Len(published) :
             /\ duplicateRequestMsg \in { published[i].trans.Notes[n] : n \in 1..Len(published[i].trans.Notes) }
             /\ published[i].trans.Tuple = store[k].value.Tuple

\* C2: a request on a tuple whose key is pending removes the pending
\* transaction, appends the duplicate-request note and publishes it
\* Request-only, before the new transaction exists; the new transaction is a
\* fresh object holding the second request; a transaction published with the
\* duplicate note is never in the store nor published again, so a later
\* response or timeout concerns the second request only; and the second
\* transaction is eventually published too.
C2_Superseded ==
    /\ \A id \in 1..MaxMsgs : Supersedes(id) ~> IsPublished(id)
    /\ [][
       /\ \A t \in Tuples, m \in Messages :
            LET k == Hashable(t) IN
            (ProcessRequestDelete(t, m) /\ store[k] # Nil) =>
               LET old == store[k].value
                   p == Last(published')
               IN /\ PublishedOne
                  /\ ~IsPublished(old.id)
                  /\ p.by = "processRequest"
                  /\ p.trans = [old EXCEPT !.Notes = <<duplicateRequestMsg>>]
                  /\ old.Request # Nil /\ old.Response = Nil
                  /\ p.event["notes"] = <<duplicateRequestMsg>>
                  /\ Has(p.event["icmp"], "request") /\ ~Has(p.event["icmp"], "response")
                  /\ store'[k] = Nil
                  /\ pc' = "put" /\ nextId' = nextId
       /\ (ProcessRequestStore /\ requiresCounterpart(cur.tuple, cur.msg)) =>
               LET new == StoredValue(store', Hashable(cur.tuple)) IN
               /\ new.id = nextId
               /\ ~IsPublished(new.id) /\ new.id \notin StoredIds
               /\ new.Request = cur.msg /\ new.Response = Nil /\ new.Notes = <<>>
               /\ published' = published
       /\ \A i \in 1..Len(published') :
            duplicateRequestMsg \in { published'[i].trans.Notes[n] : n \in 1..Len(published'[i].trans.Notes) } =>
               /\ published'[i].trans.id \notin StoredIds'
               /\ \A j \in 1..Len(published') : published'[j].trans.id = published'[i].trans.id => j = i
      ]_vars

\* Two requests on one tuple were followed by a response: the first request was
\* published with the duplicate note and the second one complete.
C2_Witness ==
    /\ Len(published) = 2
    /\ published[1].trans.Notes = <<duplicateRequestMsg>>
    /\ published[1].trans.Response = Nil
    /\ published[2].trans.Tuple = published[1].trans.Tuple
    /\ published[2].trans.id # published[1].trans.id
    /\ published[2].trans.Request # Nil /\ published[2].trans.Response # Nil
    /\ published[2].trans.Notes = <<>>

\* ------------------------------------------------------------- C3
\* C3: a response on T that finds no pending entry at hashable(T.reverse())
\* publishes, in processResponse itself, exactly one new transaction holding
\* only the Response, with exactly the orphaned-response note and status ERROR,
\* and leaves the store unchanged.
C3_OrphanedResponse ==
    [][\A t \in Tuples, m \in Messages :
         (ProcessResponse(t, m) /\ store[Hashable(Reverse(t))] = Nil) =>
            LET p == Last(published') IN
            /\ PublishedOne
            /\ p.by = "processResponse"
            /\ ~IsPublished(p.trans.id) /\ p.trans.id \notin StoredIds
            /\ p.trans.Request = Nil
            /\ p.trans.Response = m
            /\ p.trans.Notes = <<orphanedResponseMsg>>
            /\ p.event["notes"] = <<orphanedResponseMsg>>
            /\ p.event["status"] = ERROR_STATUS
            /\ ~Has(p.event["icmp"], "request") /\ Has(p.event["icmp"], "response")
            /\ store' = store
    ]_vars

\* A response was published as an orphan while another tuple's request stayed
\* pending.
C3_Witness ==
    /\ StoredKeys # {}
    /\ \E i \in 1..Len(published) :
          /\ published[i].by = "processResponse"
          /\ published[i].trans.Request = Nil
          /\ published[i].event["status"] = ERROR_STATUS

\* ------------------------------------------------------------- C4
\* C4: with the janitor's ticker firing for ever, every stored transaction is
\* eventually published; a transaction leaves the store only in a step that
\* publishes it, once; and one the sweep removes had expired and is published
\* by the removal listener holding only the Request, with exactly the
\* orphaned-request note and status ERROR.
C4_PendingIsPublished ==
    /\ \A id \in 1..MaxMsgs : (id \in StoredIds) ~> IsPublished(id)
    /\ [][
           /\ \A id \in StoredIds :
               id \notin StoredIds' =>
                  /\ ~IsPublished(id)
                  /\ Cardinality(PublishedIn(published', id)) = 1
           /\ Janitor =>
                \A k \in StoredKeys :
                   store'[k] = Nil =>
                      LET old == store[k].value
                          p == published'[CHOOSE i \in PublishedIn(published', old.id) : TRUE]
                      IN /\ store[k].age + 1 >= TransactionTimeout
                         /\ p.by = "expireTransaction"
                         /\ p.trans = [old EXCEPT !.Notes = <<orphanedRequestMsg>>]
                         /\ old.Request # Nil /\ old.Response = Nil
                         /\ p.event["notes"] = <<orphanedRequestMsg>>
                         /\ p.event["status"] = ERROR_STATUS
                         /\ Has(p.event["icmp"], "request") /\ ~Has(p.event["icmp"], "response")
      ]_vars

\* Two pending requests were evicted by one sweep and published by the removal
\* listener.
C4_Witness ==
    /\ StoredKeys = {}
    /\ \E i, j \in 1..Len(published) :
          /\ i # j
          /\ published[i].by = "expireTransaction"
          /\ published[j].by = "expireTransaction"

\* ------------------------------------------------------------- C5
NotesOf(t) == { t.Notes[n] : n \in 1..Len(t.Notes) }

\* C5: no transaction object is published twice, none is published while it is
\* still in the store, and every published transaction is complete (Request
\* and Response), orphaned (evicted by the sweep, or an unmatched response),
\* superseded by a duplicate request, or a request that needs no counterpart.
C5_PublishedOnce ==
    /\ \A i, j \in 1..Len(published) :
          published[i].trans.id = published[j].trans.id => i = j
    /\ \A i \in 1..Len(published) : published[i].trans.id \notin StoredIds
    /\ \A i \in 1..Len(published) :
          LET t == published[i].trans
              by == published[i].by
          IN \/ t.Request # Nil /\ t.Response # Nil
             \/ by = "expireTransaction" /\ orphanedRequestMsg \in NotesOf(t)
             \/ by = "processResponse" /\ t.Request = Nil /\ orphanedResponseMsg \in NotesOf(t)
             \/ by = "processRequest" /\ duplicateRequestMsg \in NotesOf(t)
             \/ by = "processRequest" /\ t.Request # Nil /\ ~requiresCounterpart(t.Tuple, t.Request)

\* A superseded request, a request needing no counterpart and an evicted
\* request have been published.
C5_Witness ==
    /\ \E i \in 1..Len(published) : duplicateRequestMsg \in NotesOf(published[i].trans)
    /\ \E i \in 1..Len(published) : published[i].by = "expireTransaction"
    /\ \E i \in 1..Len(published) :
          published[i].by = "processRequest" /\ published[i].trans.Notes = <<>>

\* ------------------------------------------------------------- C6
Count(P(_)) == Cardinality({ i \in 1..Len(published) : P(published[i]) })

IsNoCounterpart(p) == p.by = "processRequest" /\ p.trans.Notes = <<>>
IsCompletedPair(p) == p.trans.Request # Nil /\ p.trans.Response # Nil
IsSuperseded(p) == duplicateRequestMsg \in NotesOf(p.trans)
IsOrphanedResponse(p) == orphanedResponseMsg \in NotesOf(p.trans)
IsTimeoutOrphan(p) == orphanedRequestMsg \in NotesOf(p.trans)

\* Transactions allocated so far.
Created == nextId - 1

\* C6: at every state the transactions created are those published plus those
\* in the store; every message creates one transaction except a response that
\* completes a pair; and the published count is the sum of the requests
\* needing no counterpart, the completed pairs, the superseded requests, the
\* orphaned responses and the requests evicted by timeout.
C6_Conservation ==
    /\ Created = Len(published) + Cardinality(StoredKeys)
    /\ Cardinality(StoredIds) = Cardinality(StoredKeys)
    /\ Created = nmsgs - Count(IsCompletedPair) - (IF pc = "put" THEN 1 ELSE 0)
    /\ Len(published) = Count(IsNoCounterpart) + Count(IsCompletedPair) + Count(IsSuperseded)
                          + Count(IsOrphanedResponse) + Count(IsTimeoutOrphan)

\* A run of three requests ended with an empty store: one was superseded and
\* two were evicted.
C6_Witness ==
    /\ StoredKeys = {} /\ pc = "idle" /\ nmsgs = 3
    /\ Count(IsSuperseded) = 1
    /\ Count(IsTimeoutOrphan) = 2

\* ------------------------------------------------------------- C7
\* C7: a request that needs no counterpart is published by processRequest
\* itself, Request-only, without notes and with status OK, and is not put in
\* the store: its key is absent afterwards.  No stored transaction, and so none
\* completed by a response or evicted by the sweep, holds such a request.
C7_NoCounterpart ==
    [][
       /\ (ProcessRequestStore /\ ~requiresCounterpart(cur.tuple, cur.msg)) =>
             LET p == Last(published') IN
             /\ PublishedOne
             /\ p.by = "processRequest"
             /\ ~IsPublished(p.trans.id) /\ p.trans.id \notin StoredIds
             /\ p.trans.Request = cur.msg
             /\ p.trans.Response = Nil
             /\ p.trans.Notes = <<>>
             /\ ~Has(p.event, "notes")
             /\ p.event["status"] = OK_STATUS
             /\ Has(p.event["icmp"], "request") /\ ~Has(p.event["icmp"], "response")
             /\ store' = store
             /\ store'[Hashable(cur.tuple)] = Nil
       /\ \A k \in Keys :
             store'[k] # Nil => requiresCounterpart(store'[k].value.Tuple, store'[k].value.Request)
       /\ \A i \in 1..Len(published') :
             (published'[i].by # "processRequest" /\ published'[i].trans.Request # Nil) =>
                requiresCounterpart(published'[i].trans.Tuple, published'[i].trans.Request)
    ]_vars

\* A request needing no counterpart was published, and a later response on the
\* reverse tuple was published as an orphan.
C7_Witness ==
    /\ Len(published) = 2
    /\ published[1].by = "processRequest"
    /\ published[1].trans.Request.Type = TypeDestUnreachable
    /\ published[1].event["status"] = OK_STATUS
    /\ published[2].trans.Tuple = published[1].trans.Tuple
    /\ published[2].trans.Notes = <<orphanedResponseMsg>>

\* ------------------------------------------------------------- C8
\* C8: in every published event, status is ERROR exactly when the transaction
\* carries a note, the notes field is present exactly when the note list is not
\* empty, and responsetime is present only if Request and Response are both
\* attached.
C8_EventFields ==
    \A i \in 1..Len(published) :
       LET t == published[i].trans
           e == published[i].event
       IN /\ e["status"] \in {OK_STATUS, ERROR_STATUS}
          /\ e["status"] = ERROR_STATUS <=> Len(t.Notes) > 0
          /\ Has(e, "notes") <=> Len(t.Notes) > 0
          /\ Has(e, "notes") => e["notes"] = t.Notes
          /\ Has(e, "responsetime") => (t.Request # Nil /\ t.Response # Nil)

\* An event with notes and status ERROR, and an event with a responsetime and
\* status OK, have been published.
C8_Witness ==
    /\ \E i \in 1..Len(published) :
          Has(published[i].event, "notes") /\ published[i].event["status"] = ERROR_STATUS
    /\ \E i \in 1..Len(published) :
          Has(published[i].event, "responsetime") /\ published[i].event["status"] = OK_STATUS

\* ------------------------------------------------------------- C9
IsLocal(ip) == ip = Loopback \/ ip \in localIps

\* Event e holds key k exactly when msg is attached, with msg's length.
BytesFrom(e, k, msg) ==
    /\ Has(e, k) <=> msg # Nil
    /\ Has(e, k) => e[k] = msg.Length

\* C9: a published transaction whose source is not local is from-outside, one
\* whose source is local and destination is not is from-inside, one with both
\* local is local-only.  From-inside reports the request length as bytes_out
\* and the response length as bytes_in, from-outside the reverse, local-only
\* neither; a bytes field is present only if its message is attached.
C9_Direction ==
    \A i \in 1..Len(published) :
       LET t == published[i].trans
           e == published[i].event
       IN IF ~IsLocal(t.Tuple.SrcIp)
          THEN /\ direction(t) = directionFromOutside
               /\ BytesFrom(e, "bytes_in", t.Request)
               /\ BytesFrom(e, "bytes_out", t.Response)
          ELSE IF ~IsLocal(t.Tuple.DstIp)
          THEN /\ direction(t) = directionFromInside
               /\ BytesFrom(e, "bytes_out", t.Request)
               /\ BytesFrom(e, "bytes_in", t.Response)
          ELSE /\ direction(t) = directionLocalOnly
               /\ ~Has(e, "bytes_in") /\ ~Has(e, "bytes_out")

\* A completed pair from inside, with different lengths of request and
\* response, and a local-only request have been published.
C9_Witness ==
    /\ \E i \in 1..Len(published) :
          /\ published[i].trans.Tuple.SrcIp = LocalAddr
          /\ published[i].trans.Tuple.DstIp = RemoteAddr
          /\ Has(published[i].event, "bytes_out") /\ Has(published[i].event, "bytes_in")
          /\ published[i].event["bytes_out"] # published[i].event["bytes_in"]
    /\ \E i \in 1..Len(published) :
          /\ published[i].trans.Tuple.SrcIp = Loopback
          /\ published[i].trans.Request # Nil

\* ------------------------------------------------------------- C10
\* C10 as stated: the orphaned-response transaction takes the timestamp and the
\* tuple of the response itself, so client_ip is the response's source and
\* ip and path its destination.
C10_OrphanHasResponseTuple ==
    [][\A t \in Tuples, m \in Messages :
         (ProcessResponse(t, m) /\ store[Hashable(Reverse(t))] = Nil) =>
            LET p == Last(published') IN
            /\ p.trans.Ts = m.Ts
            /\ p.trans.Tuple = t
            /\ p.event["client_ip"] = t.SrcIp
            /\ p.event["ip"] = t.DstIp
            /\ p.event["path"] = t.DstIp
    ]_vars

\* C10, amended: the orphaned-response transaction takes the timestamp of the
\* response and the reverse of the response's tuple, so client_ip is the
\* response's destination and ip and path are the response's source.
C10_OrphanHasReversedTuple ==
    [][\A t \in Tuples, m \in Messages :
         (ProcessResponse(t, m) /\ store[Hashable(Reverse(t))] = Nil) =>
            LET p == Last(published') IN
            /\ p.trans.Ts = m.Ts
            /\ p.event["@timestamp"] = m.Ts
            /\ p.trans.Tuple = Reverse(t)
            /\ p.event["client_ip"] = t.DstIp
            /\ p.event["ip"] = t.SrcIp
            /\ p.event["path"] = t.SrcIp
    ]_vars

\* An orphaned response stamped later than 0 was published with distinct
\* client_ip and ip.
C10_Witness ==
    \E i \in 1..Len(published) :
       /\ published[i].trans.Notes = <<orphanedResponseMsg>>
       /\ published[i].event["@timestamp"] > 0
       /\ published[i].event["client_ip"] # published[i].event["ip"]

\* ------------------------------------------------------------- C11
\* C11: a pending transaction ends in exactly one of two ways.  Either a
\* response removes it, and it is published once, complete, without notes, by
\* processResponse and never by the removal listener; or the sweep removes it,
\* and it is published once, Request-only, with the orphaned-request note, and
\* a response arriving afterwards is published as a transaction of its own.
\* No transaction, stored or published, has both a Response attached and the
\* orphaned-request note.
C11_MatchedOrExpired ==
    /\ \A k \in StoredKeys :
          ~(store[k].value.Response # Nil /\ orphanedRequestMsg \in NotesOf(store[k].value))
    /\ \A i \in 1..Len(published) :
          LET t == published[i].trans
              by == published[i].by
          IN /\ ~(t.Response # Nil /\ orphanedRequestMsg \in NotesOf(t))
             /\ (t.Request # Nil /\ t.Response # Nil) =>
                   /\ by = "processResponse"
                   /\ t.Notes = <<>>
                   /\ PublishedAt(t.id) = {i}
             /\ by = "expireTransaction" =>
                   /\ t.Request # Nil /\ t.Response = Nil
                   /\ t.Notes = <<orphanedRequestMsg>>
                   /\ PublishedAt(t.id) = {i}
                   /\ t.id \notin StoredIds
             /\ (by = "processResponse" /\ t.Request = Nil) =>
                   /\ t.Notes = <<orphanedResponseMsg>>
                   /\ PublishedAt(t.id) = {i}

\* The sweep evicted a pending request, and the response that arrived after it
\* was published as an orphaned response with the same tuple.
C11_Witness ==
    /\ Len(published) = 2
    /\ published[1].by = "expireTransaction"
    /\ published[2].by = "processResponse"
    /\ published[2].trans.Request = Nil
    /\ published[2].trans.Tuple = published[1].trans.Tuple
    /\ published[2].trans.id # published[1].trans.id

\* ------------------------------------------------------------- C12
\* C12: the Put of processRequest never overwrites a live entry.  From the
\* Delete of processRequest to its Put, whatever the sweep does in between, the
\* store has no entry at the key of the request being processed; the Put
\* leaves every entry that was stored as it was; and in every step a
\* transaction that leaves the store is published in that step, so no pending
\* transaction is dropped silently.
C12_PutNeverOverwrites ==
    [][
       /\ pc' = "put" => store'[Hashable(cur'.tuple)] = Nil
       /\ ProcessRequestStore =>
             /\ store[Hashable(cur.tuple)] = Nil
             /\ \A k \in StoredKeys : store'[k] = store[k]
       /\ \A k \in StoredKeys :
             (store'[k] = Nil \/ store'[k].value.id # store[k].value.id) =>
                 /\ PublishedIn(published, store[k].value.id) = {}
                 /\ Cardinality(PublishedIn(published', store[k].value.id)) = 1
    ]_vars

\* A request was just stored at a key whose earlier entry processRequest had
\* removed and published as superseded.
C12_Witness ==
    /\ pc = "idle"
    /\ \E k \in StoredKeys :
          /\ store[k].age = 0
          /\ \E i \in 1..Len(published) :
                /\ published[i].trans.Tuple = store[k].value.Tuple
                /\ published[i].trans.Notes = <<duplicateRequestMsg>>

\* ------------------------------------------------------------- C13
\* C13: every entry of the store is a transaction awaiting its counterpart: it
\* has a Request and no Response, no notes, has not been published, was made
\* from a request for which requiresCounterpart is true, and is stored under
\* the key of its own Tuple and under no other key.
C13_StoreHoldsPending ==
    \A k \in StoredKeys :
       LET t == store[k].value IN
       /\ t.Request # Nil
       /\ t.Response = Nil
       /\ t.Notes = <<>>
       /\ ~IsPublished(t.id)
       /\ requiresCounterpart(t.Tuple, t.Request)
       /\ k = Hashable(t.Tuple)
       /\ \A kk \in StoredKeys : store[kk].value.id = t.id => kk = k

\* Two requests are pending on two tuples while a request that needs no
\* counterpart has been published without being stored.
C13_Witness ==
    /\ Cardinality(StoredKeys) = 2
    /\ Len(published) = 1
    /\ published[1].by = "processRequest"
    /\ published[1].trans.Notes = <<>>
    /\ ~requiresCounterpart(published[1].trans.Tuple, published[1].trans.Request)

\* ------------------------------------------------------------- C14
\* The entries a sweep step removes.
Evicted == { k \in StoredKeys : Janitor /\ store'[k] = Nil }

\* C14 as stated: an unanswered request stored at time t is published with the
\* orphaned-request note at time t+d exactly, d the transaction timeout: every
\* entry the sweep removes is d seconds old, and no entry older than that is
\* in the store.
C14_PublishedAtDeadline ==
    [][
       /\ \A k \in Evicted : store[k].age + 1 = TransactionTimeout
       /\ \A k \in StoredKeys : store[k].age <= TransactionTimeout
    ]_vars

\* C14, amended: an unanswered request stored at time t is published with the
\* orphaned-request note by the first sweep at or after t+d.  The sweep runs
\* every d seconds, so that is at a time from t+d to less than t+2d: no sweep
\* removes an entry younger than d, every sweep removes every entry that is d
\* old or older and publishes it once with the note, and no entry of the store
\* ever gets 2d old.
C14_PublishedAtFirstSweepAfterDeadline ==
    [][
       /\ \A k \in StoredKeys : store[k].age + 1 < 2 * TransactionTimeout
       /\ Janitor =>
             /\ \A k \in StoredKeys :
                   k \in Evicted <=> store[k].age + 1 >= TransactionTimeout
             /\ \A k \in Evicted :
                   /\ TransactionTimeout <= store[k].age + 1
                   /\ store[k].age + 1 < 2 * TransactionTimeout
                   /\ PublishedIn(published, store[k].value.id) = {}
                   /\ \E i \in PublishedIn(published', store[k].value.id) :
                         /\ PublishedIn(published', store[k].value.id) = {i}
                         /\ published'[i].by = "expireTransaction"
                         /\ published'[i].trans.Notes = <<orphanedRequestMsg>>
             /\ Len(published') = Len(published) + Cardinality(Evicted)
    ]_vars

\* A sweep has published one request as orphaned and has passed over a younger
\* one, which is now past its deadline and waits in the store for the next
\* sweep.
C14_Witness ==
    /\ \E i \in 1..Len(published) : published[i].by = "expireTransaction"
    /\ \E k \in StoredKeys : store[k].age >= TransactionTimeout

C16_TimestampOfCreator ==
    [][
       /\ \A k \in { x \in Keys : store'[x] # Nil } :
             LET t == store'[k].value IN
             /\ t.Ts = t.Request.Ts
             /\ store[k] # Nil /\ store[k].value.id = t.id =>
                   t.Ts = store[k].value.Ts /\ t.Tuple = store[k].value.Tuple
       /\ \A i \in 1..Len(published') :
             LET t == published'[i].trans IN
             /\ t.Ts = IF t.Request # Nil THEN t.Request.Ts ELSE t.Response.Ts
             /\ published'[i].event["@timestamp"] = t.Ts
             /\ \A k \in StoredKeys :
                   store[k].value.id = t.id =>
                      /\ t.Ts = store[k].value.Ts
                      /\ t.Tuple = store[k].value.Tuple
                      /\ t.Request = store[k].value.Request
    ]_vars

\* A pair was completed by a response stamped earlier than its request, and
\* the event carries the request's timestamp.
C16_Witness ==
    \E i \in 1..Len(published) :
       LET t == published[i].trans IN
       /\ t.Request # Nil /\ t.Response # Nil
       /\ t.Response.Ts < t.Request.Ts
       /\ published[i].event["@timestamp"] = t.Request.Ts

\* ------------------------------------------------------------- C17
\* The places of published where a transaction of the tuple was published with
\* a note: superseded, orphaned response or orphaned request.
Anomalies(tuple) ==
    { i \in 1..Len(published) :
        published[i].trans.Tuple = tuple /\ published[i].trans.Notes # <<>> }

\* C17: after an anomaly on a tuple the matcher still serves it.  When a
\* transaction of tuple T has been published with a note, a later
\* counterpart-requiring request on T is stored as a new transaction without
\* notes, and the response on T.reverse() that finds it publishes that one
\* transaction, complete, status OK, with none of the earlier notes, and leaves
\* the key absent; the earlier publications stay as they were.
C17_ServiceableAfterAnomaly ==
    [][
       /\ (/\ ProcessRequestStore
           /\ requiresCounterpart(cur.tuple, cur.msg)
           /\ Anomalies(cur.tuple) # {}) =>
             LET new == store'[Hashable(cur.tuple)].value IN
             /\ new.Notes = <<>>
             /\ new.Request = cur.msg /\ new.Response = Nil
             /\ \A i \in 1..Len(published) : published[i].trans.id # new.id
       /\ \A t \in Tuples, m \in Messages :
             LET k == Hashable(Reverse(t)) IN
             (/\ ProcessResponse(t, m)
              /\ store[k] # Nil
              /\ Anomalies(Reverse(t)) # {}) =>
                LET p == Last(published') IN
                /\ PublishedOne
                /\ p.trans.Tuple = Reverse(t)
                /\ p.trans.Request = store[k].value.Request /\ p.trans.Response = m
                /\ p.trans.Notes = <<>>
                /\ ~Has(p.event, "notes")
                /\ p.event["status"] = OK_STATUS
                /\ \A i \in Anomalies(Reverse(t)) : published[i].trans.id # p.trans.id
                /\ store'[k] = Nil
    ]_vars

\* A request was evicted as orphaned, and the next request on its tuple was
\* completed by its response.
C17_Witness ==
    /\ Len(published) = 2
    /\ published[1].by = "expireTransaction"
    /\ published[2].trans.Tuple = published[1].trans.Tuple
    /\ published[2].trans.Request # Nil /\ published[2].trans.Response # Nil
    /\ published[2].trans.Notes = <<>>
    /\ published[2].event["status"] = OK_STATUS

PendingAfterOrphanedResponse(id) ==
    \E k \in StoredKeys :
       /\ store[k].value.id = id
       /\ \E i \in 1..Len(published) :
             /\ published[i].trans.Tuple = store[k].value.Tuple
             /\ published[i].trans.Request = Nil
             /\ published[i].trans.id < id

\* The transaction id was published Request-only with the orphaned-request
\* note and status ERROR, or a further message on its key ended it first: a
\* response completed it or a request superseded it.
OrphanedOrAnswered(id) ==
    \E i \in PublishedAt(id) :
       \/ /\ published[i].by = "expireTransaction"
          /\ published[i].trans.Response = Nil
          /\ published[i].trans.Notes = <<orphanedRequestMsg>>
          /\ published[i].event["status"] = ERROR_STATUS
       \/ /\ published[i].by = "processResponse"
          /\ published[i].trans.Response # Nil
       \/ /\ published[i].by = "processRequest"
          /\ published[i].trans.Notes = <<duplicateRequestMsg>>

\* C19: a response is never paired with a request that comes after it.  A
\* response that finds nothing pending is published at once as an orphaned
\* response, status ERROR, and leaves nothing in the store; a transaction is
\* published complete only if it was pending, with its Request, before the
\* response came; and the request that comes after an orphaned response is
\* stored without a Response and, unless a further response answers it or a
\* further request supersedes it, is eventually published as an orphaned
\* request.
C19_ResponseBeforeRequest ==
    /\ \A id \in 1..MaxMsgs : PendingAfterOrphanedResponse(id) ~> OrphanedOrAnswered(id)
    /\ [][
          /\ \A t \in Tuples, m \in Messages :
                (ProcessResponse(t, m) /\ store[Hashable(Reverse(t))] = Nil) =>
                   /\ store' = store
                   /\ PublishedOne
                   /\ Last(published').trans.Request = Nil
                   /\ Last(published').trans.Response = m
                   /\ Last(published').event["status"] = ERROR_STATUS
          /\ \A i \in (Len(published) + 1)..Len(published') :
                published'[i].trans.Response # Nil /\ published'[i].trans.Request # Nil =>
                   \E k \in StoredKeys :
                      /\ store[k].value.id = published'[i].trans.id
                      /\ store[k].value.Request = published'[i].trans.Request
                      /\ store[k].value.Response = Nil
          /\ \A k \in Keys : store'[k] # Nil => store'[k].value.Response = Nil
       ]_vars

\* A response came first and was published as an orphaned response; the
\* request that followed on the reverse tuple was evicted and published as an
\* orphaned request: two ERROR transactions and no complete one.
C19_Witness ==
    /\ Len(published) = 2
    /\ published[1].by = "processResponse"
    /\ published[1].trans.Request = Nil
    /\ published[1].trans.Notes = <<orphanedResponseMsg>>
    /\ published[2].by = "expireTransaction"
    /\ published[2].trans.Tuple = published[1].trans.Tuple
    /\ published[2].trans.Response = Nil
    /\ published[2].trans.Notes = <<orphanedRequestMsg>>
    /\ published[1].event["status"] = ERROR_STATUS
    /\ published[2].event["status"] = ERROR_STATUS

\* ------------------------------------------------------------- C20
\* The four shapes of a published transaction.
ShapeComplete(t) == t.Request # Nil /\ t.Response # Nil /\ t.Notes = <<>>

ShapeNoCounterpart(t) ==
    /\ t.Request # Nil /\ t.Response = Nil /\ t.Notes = <<>>
    /\ ~requiresCounterpart(t.Tuple, t.Request)

ShapeNotedRequest(t) ==
    /\ t.Request # Nil /\ t.Response = Nil
    /\ t.Notes \in { <<duplicateRequestMsg>>, <<orphanedRequestMsg>> }

ShapeOrphanedResponse(t) ==
    t.Request = Nil /\ t.Response # Nil /\ t.Notes = <<orphanedResponseMsg>>

\* C20: every published transaction has exactly one of four shapes: Request
\* and Response without a note; Request only without a note, the request
\* needing no counterpart; Request only with one note, the duplicate-request
\* or the orphaned-request note; Response only with the orphaned-response
\* note.  None has neither side attached and none carries two notes, and the
\* event shows the same: no notes field or a notes field of one note.
C20_FourShapes ==
    \A i \in 1..Len(published) :
       LET t == published[i].trans
           e == published[i].event
       IN /\ \/ ShapeComplete(t)
             \/ ShapeNoCounterpart(t)
             \/ ShapeNotedRequest(t)
             \/ ShapeOrphanedResponse(t)
          /\ Len(t.Notes) <= 1
          /\ ~(t.Request = Nil /\ t.Response = Nil)
          /\ IF t.Notes = <<>> THEN ~Has(e, "notes") ELSE e["notes"] = t.Notes
          /\ ShapeComplete(t) => published[i].by = "processResponse"
          /\ ShapeNoCounterpart(t) => published[i].by = "processRequest"
          /\ ShapeOrphanedResponse(t) => published[i].by = "processResponse"
          /\ ShapeNotedRequest(t) =>
                published[i].by = (IF t.Notes = <<duplicateRequestMsg>>
                                   THEN "processRequest" ELSE "expireTransaction")

\* Three of the shapes have been published in one run: a request
\* needing no counterpart, an orphaned response, and a request with a note.
C20_Witness ==
    /\ \E i \in 1..Len(published) : ShapeNoCounterpart(published[i].trans)
    /\ \E i \in 1..Len(published) : ShapeOrphanedResponse(published[i].trans)
    /\ \E i \in 1..Len(published) : ShapeNotedRequest(published[i].trans)

====
